---- MODULE Spec2Model ----
(***************************************************************************)
(* State-machine model of usb::Relay (libusb-1.0 variant): the supervisor  *)
(* thread Relay::run with claimDevice / releaseDevice, the toggle engine   *)
(* Relay::toggle / toggleInternal, Relay::setSerial and Relay::readStates, *)
(* running against one USB relay board.  A thread's step is the code       *)
(* between two blocking points (a lock acquisition or a control transfer). *)
(***************************************************************************)
EXTENDS Integers, Sequences, FiniteSets, TLC

(***************************************************************************)
(* Program constants                                                       *)
(***************************************************************************)
USB_CONTINUOUS_ERRORS_1 == 3
USB_CONTINUOUS_ERRORS_2 == 5
LIBUSB_ERROR_NO_DEVICE == -4
LIBUSB_ERROR_IO == -1
buffSize == 8
serialLen == 5

\* "USBRelay" as character codes
baseProductName == <<85, 83, 66, 82, 101, 108, 97, 121>>

\* variant: 3 among the accepted relay counts
countCheckWithThree == {1, 2, 3, 4, 8}

countCheck == {1, 2, 4, 8}

(***************************************************************************)
(* Bounds of the model                                                     *)
(***************************************************************************)
\* devices visited by one enumeration of the bus
MaxDevs == 2
\* public toggle() calls made by the client thread
MaxToggles == 1
\* public setSerial() calls made by the client thread
MaxSetSerials == 1
\* failed claims in a row that are followed (claimAttempts is capped here)
MaxClaimAttempts == 1
\* failed claims in a row that are followed where the backoff is looked at
MaxBackoffAttempts == 43
\* button presses on the board (state changes from outside)
MaxExternal == 1

(***************************************************************************)
(* Bytes, bits and strings                                                 *)
(***************************************************************************)
RECURSIVE Pow2(_)
Pow2(i) == IF i = 0 THEN 1 ELSE 2 * Pow2(i - 1)

\* bool(x & (1U << i))
BitSet(x, i) == (x \div Pow2(i)) % 2 = 1

\* quint8(x | (1U << i))
OrBit(x, i) == IF BitSet(x, i) THEN x ELSE (x + Pow2(i)) % 256

\* quint8(x & ~(1U << i))
AndNotBit(x, i) == IF BitSet(x, i) THEN x - Pow2(i) ELSE x

\* QString::toUtf8 of one UTF-16 code unit (no surrogates in the inputs)
Utf8Char(c) ==
    IF c < 128 THEN <<c>>
    ELSE IF c < 2048 THEN <<192 + (c \div 64), 128 + (c % 64)>>
    ELSE <<224 + (c \div 4096), 128 + ((c \div 64) % 64), 128 + (c % 64)>>

RECURSIVE toUtf8(_)
toUtf8(s) == IF s = <<>> THEN <<>> ELSE Utf8Char(Head(s)) \o toUtf8(Tail(s))

\* QString::fromLatin1(const char*): the bytes before the first NUL
RECURSIVE fromLatin1(_)
fromLatin1(b) ==
    IF b = <<>> \/ Head(b) = 0 THEN <<>> ELSE <<Head(b)>> \o fromLatin1(Tail(b))

\* strncmp(buff, baseProductName, len) == 0
HasBaseName(p) ==
    /\ Len(p) >= Len(baseProductName)
    /\ SubSeq(p, 1, Len(baseProductName)) = baseProductName

(***************************************************************************)
(* State                                                                   *)
(***************************************************************************)
VARIABLES
    deviceHandle,          \* _deviceHandle: "null" or "open"
    deviceInitialized,     \* _deviceInitialized (isAttached)
    usbContinuousErrors,   \* _usbContinuousErrors
    usbLastErrorCode,      \* _usbLastErrorCode
    product,               \* _product
    serial,                \* _serial
    states,                \* _states, one byte
    count,                 \* _count
    initStates,            \* _initStates
    attachSerial,          \* _attachSerial
    threadLock,            \* owner of _threadLock, or "none"
    threadStop,            \* QThreadEx stop flag
    sup,                   \* locals and position of Relay::run / claimDevice
    tgl,                   \* per thread: locals and position of toggleInternal
    ss,                    \* locals and position of Relay::setSerial
    board,                 \* the relay board behind the open handle
    events,                \* attached() was emitted and detached() not yet
    calls,                 \* calls made so far (bounded by the model)
    crashed                \* the process died on an undefined operation

vars == <<deviceHandle, deviceInitialized, usbContinuousErrors, usbLastErrorCode,
          product, serial, states, count, initStates, attachSerial, threadLock,
          threadStop, sup, tgl, ss, board, events, calls, crashed>>

Threads == {"sup", "tog"}

\* A client call has its result and is about to return.  The return only
\* releases what the call holds and touches no shared field, so it commutes
\* with every step of the other threads: it is taken before they go on.
Returning == tgl["tog"].pc = "ret" \/ ss.pc = "ret"

\* the process is alive and no return is pending
Running == ~crashed /\ ~Returning

\* a local that holds no value yet
None == -100

\* return values of libusb_control_transfer for an 8 byte report
XferResults == {buffSize, 0, LIBUSB_ERROR_IO, LIBUSB_ERROR_NO_DEVICE}

\* A board that has failed (it was unplugged, or it stopped answering) fails
\* every transfer.  A transfer through a null handle is undefined: it fails,
\* or the process dies (action Crash).
Results ==
    IF deviceHandle = "open" /\ ~board.dead THEN XferResults
    ELSE {LIBUSB_ERROR_IO, LIBUSB_ERROR_NO_DEVICE}

\* the 8 byte report the board answers a GET with
BoardReport == board.serial \o board.tail \o <<board.bits>>

NoBoard == [bits |-> 0, serial |-> <<>>, tail |-> <<0, 0>>, relays |-> 0,
            claimed |-> FALSE, dead |-> FALSE]

\* what the board does with a SET report
BoardApply(bits, buff, relays) ==
    CASE buff[1] = 255 -> OrBit(bits, buff[2] - 1)
      [] buff[1] = 253 -> AndNotBit(bits, buff[2] - 1)
      [] buff[1] = 254 -> Pow2(relays) - 1
      [] buff[1] = 252 -> 0
      [] OTHER -> bits

(***************************************************************************)
(* Relay::readStates, given the transfer's return value                    *)
(***************************************************************************)
\* variant: only a negative return value counts as a failure
TransferError(res) == res < 0

\* the transfer did not move the whole buffer
TransferFailed(res) == res # buffSize

\* _usbLastErrorCode after a failed transfer
FailedLastErrorCode(res) == IF res < 0 THEN res ELSE usbLastErrorCode

ReadStatesErrors(res) ==
    IF TransferFailed(res) THEN usbContinuousErrors + 1 ELSE 0

ReadStatesLastError(res) ==
    IF TransferFailed(res) THEN FailedLastErrorCode(res) ELSE 0

\* return value: -1, or byte 7 of the report
ReadStatesRet(res, buff) == IF TransferFailed(res) THEN -1 ELSE buff[8]

(***************************************************************************)
(* Relay::statesInternal / states()                                        *)
(***************************************************************************)
statesInternal == [i \in 1..count |-> IF BitSet(states, i - 1) THEN 1 ELSE 0]

(***************************************************************************)
(* Relay::toggleInternal                                                   *)
(***************************************************************************)
\* locals: relayNumber, value, relayCount, buff, expectStates, pre (states read
\* before the SET), res (result of the SET), rd (states read after it), ret;
\* history of the call: old (_states at entry), the signals emitted and the
\* control transfers issued
TglIdle == [pc |-> "idle", relayNumber |-> 0, value |-> FALSE, relayCount |-> 0,
            buff |-> <<>>, expectStates |-> 0, old |-> 0, pre |-> None,
            res |-> None, rd |-> None, ret |-> FALSE,
            changed |-> 0, failChange |-> 0, xfers |-> 0]

\* variant: the handle is looked at instead of the flag
NotInitializedByHandle == deviceHandle = "null"

\* if (!_deviceInitialized)
NotInitialized == ~deviceInitialized

\* if (relayNumber > relayCount)
OutOfRange(relayNumber, relayCount) == relayNumber > relayCount

\* variant: all eight bits whatever the board's size
ExpectAllByte(value, relayCount) == IF value THEN 255 ELSE 0

\* expectStates when all relays are switched
ExpectAll(value, relayCount) ==
    IF value THEN (Pow2(relayCount) - 1) % 256 ELSE 0

\* expectStates when one relay is switched, from the bitmask just read
ExpectOne(st, relayNumber, value) ==
    IF value THEN OrBit(st, relayNumber - 1) ELSE AndNotBit(st, relayNumber - 1)

\* variant: the commands for on and off change places
ToggleReportSwapped(relayNumber, value) ==
    IF relayNumber <= 0
    THEN <<(IF value THEN 252 ELSE 254), 0, 0, 0, 0, 0, 0, 0>>
    ELSE <<(IF value THEN 253 ELSE 255), relayNumber % 256, 0, 0, 0, 0, 0, 0>>

\* the SET report: cmd1, cmd2 and six zero bytes
ToggleReport(relayNumber, value) ==
    IF relayNumber <= 0
    THEN <<(IF value THEN 254 ELSE 252), 0, 0, 0, 0, 0, 0, 0>>
    ELSE <<(IF value THEN 255 ELSE 253), relayNumber % 256, 0, 0, 0, 0, 0, 0>>

\* variant: a failure path that emits nothing
TglFailSilent(r) == [r EXCEPT !.pc = "ret", !.ret = FALSE]

\* the failure paths: emit failChange, return false
TglFail(r) == [r EXCEPT !.pc = "ret", !.ret = FALSE,
                        !.failChange = r.failChange + 1]

\* Entry of toggleInternal up to its first transfer.  count() in the
\* out-of-range message locks _threadLock, which the caller already holds:
\* the thread blocks for ever ("selfLock").
TglEnter(th, relayNumber, value) ==
    LET r == [TglIdle EXCEPT !.relayNumber = relayNumber, !.value = value,
                             !.old = states]
    IN  tgl' = [tgl EXCEPT ![th] =
            IF NotInitialized THEN TglFail(r)
            ELSE IF OutOfRange(relayNumber, count)
                 THEN [r EXCEPT !.pc = "selfLock", !.relayCount = count]
            ELSE IF relayNumber <= 0
                 THEN [r EXCEPT !.pc = "set", !.relayNumber = 0,
                                !.relayCount = count,
                                !.expectStates = ExpectAll(value, count),
                                !.buff = ToggleReport(relayNumber, value)]
            ELSE [r EXCEPT !.pc = "preread", !.relayCount = count]]

\* readStates before a single relay is switched
TglPreRead(th) ==
    /\ Running
    /\ tgl[th].pc = "preread"
    /\ \E res \in Results :
         LET st == ReadStatesRet(res, BoardReport)
             r  == [tgl[th] EXCEPT !.xfers = @ + 1, !.pre = st]
         IN  /\ usbContinuousErrors' = ReadStatesErrors(res)
             /\ usbLastErrorCode' = ReadStatesLastError(res)
             /\ tgl' = [tgl EXCEPT ![th] =
                  IF st < 0 THEN TglFail(r)
                  ELSE [r EXCEPT !.pc = "set",
                          !.expectStates = ExpectOne(st, r.relayNumber, r.value),
                          !.buff = ToggleReport(r.relayNumber, r.value)]]
    /\ UNCHANGED <<deviceHandle, deviceInitialized, product, serial, states,
                   count, initStates, attachSerial, threadLock, threadStop,
                   sup, ss, board, events, calls, crashed>>

\* the SET transfer; the board may apply the command or not
TglSet(th) ==
    /\ Running
    /\ tgl[th].pc = "set"
    /\ \E res \in Results, applied \in BOOLEAN :
         LET r == [tgl[th] EXCEPT !.xfers = @ + 1, !.res = res]
         IN  IF TransferFailed(res)
             THEN /\ ~applied
                  /\ usbLastErrorCode' = FailedLastErrorCode(res)
                  /\ usbContinuousErrors' = usbContinuousErrors + 1
                  /\ tgl' = [tgl EXCEPT ![th] = TglFail(r)]
                  /\ board' = board
             ELSE /\ UNCHANGED <<usbLastErrorCode, usbContinuousErrors>>
                  /\ tgl' = [tgl EXCEPT ![th] = [r EXCEPT !.pc = "reread"]]
                  /\ board' = IF applied
                              THEN [board EXCEPT !.bits =
                                      BoardApply(@, r.buff, board.relays)]
                              ELSE board
    /\ UNCHANGED <<deviceHandle, deviceInitialized, product, serial, states,
                   count, initStates, attachSerial, threadLock, threadStop,
                   sup, ss, events, calls, crashed>>

\* variant: the re-read is not stored
KeepStates(st) == states

\* _states after the re-read returned st
AdoptReRead(st) == st % 256

\* variant: the re-read is not compared
NeverNotConverged(st, expectStates) == FALSE

\* if (_states != expectStates)
NotConverged(st, expectStates) == st # expectStates

\* the re-read, the comparison with expectStates and the result
TglReRead(th) ==
    /\ Running
    /\ tgl[th].pc = "reread"
    /\ \E res \in Results :
         LET st == ReadStatesRet(res, BoardReport)
             r  == [tgl[th] EXCEPT !.xfers = @ + 1, !.rd = st]
         IN  /\ usbContinuousErrors' = ReadStatesErrors(res)
             /\ usbLastErrorCode' = ReadStatesLastError(res)
             /\ IF st < 0
                THEN /\ tgl' = [tgl EXCEPT ![th] = TglFail(r)]
                     /\ states' = states
                ELSE /\ states' = AdoptReRead(st)
                     /\ tgl' = [tgl EXCEPT ![th] =
                          IF NotConverged(AdoptReRead(st), r.expectStates)
                          THEN TglFail(r)
                          ELSE [r EXCEPT !.pc = "ret", !.ret = TRUE,
                                         !.changed = r.changed + 1]]
    /\ UNCHANGED <<deviceHandle, deviceInitialized, product, serial,
                   count, initStates, attachSerial, threadLock, threadStop,
                   sup, ss, board, events, calls, crashed>>

(***************************************************************************)
(* Relay::toggle, called by a client thread                                *)
(***************************************************************************)
\* relay numbers a client passes: all relays (<= 0), the first two relays,
\* the last relay of the largest board, and one past it
RelayNumbers == {-1, 0, 1, 2, 8, 9}

\* the lock is taken and toggleInternal runs up to its first transfer
ToggleCall ==
    /\ Running
    /\ tgl["tog"].pc = "idle"
    /\ calls.toggle < MaxToggles
    /\ threadLock = "none"
    /\ threadLock' = "tog"
    /\ \E relayNumber \in RelayNumbers, value \in BOOLEAN :
         TglEnter("tog", relayNumber, value)
    /\ calls' = [calls EXCEPT !.toggle = @ + 1]
    /\ UNCHANGED <<deviceHandle, deviceInitialized, usbContinuousErrors,
                   usbLastErrorCode, product, serial, states, count, initStates,
                   attachSerial, threadStop, sup, ss, board, events, crashed>>

\* toggle returns: the locker releases _threadLock
ToggleReturn ==
    /\ ~crashed
    /\ tgl["tog"].pc = "ret"
    /\ threadLock' = "none"
    /\ tgl' = [tgl EXCEPT !["tog"] = TglIdle]
    /\ UNCHANGED <<deviceHandle, deviceInitialized, usbContinuousErrors,
                   usbLastErrorCode, product, serial, states, count, initStates,
                   attachSerial, threadStop, sup, ss, board, events, calls,
                   crashed>>

(***************************************************************************)
(* The boards an enumeration of the bus may find                           *)
(***************************************************************************)
\* "AB000", "CD000"
SerialAB == <<65, 66, 48, 48, 48>>
SerialCD == <<67, 68, 48, 48, 48>>

ProductName(digits) == baseProductName \o digits

Board(digits, ser, tail) ==
    [product |-> ProductName(digits), serial |-> ser, tail |-> tail]

\* one board of each size: product descriptor, serial bytes 0..4, bytes 5, 6
SizeBoards ==
    { Board(<<49>>, SerialAB, <<0, 0>>), Board(<<50>>, SerialAB, <<0, 0>>),
      Board(<<52>>, SerialAB, <<0, 0>>), Board(<<56>>, SerialAB, <<0, 0>>) }

\* boards that differ in the serial, and in bytes 5 and 6 of the report
SerialBoards ==
    { Board(<<50>>, SerialAB, <<0, 0>>), Board(<<50>>, SerialCD, <<0, 0>>),
      Board(<<50>>, SerialAB, <<88, 0>>), Board(<<50>>, SerialAB, <<0, 1>>) }

\* boards with a product descriptor outside the convention
OddBoards ==
    { Board(<<51>>, SerialAB, <<0, 0>>), Board(<<>>, SerialAB, <<0, 0>>),
      Board(<<49, 50>>, SerialAB, <<0, 0>>),
      [product |-> <<70, 111, 111, 49>>, serial |-> SerialAB, tail |-> <<0, 0>>] }

AllBoards == SizeBoards \cup SerialBoards \cup OddBoards

\* the relays a board with this product descriptor carries
BoardRelays(p) ==
    IF Len(p) > 0 /\ p[Len(p)] - 48 \in countCheck THEN p[Len(p)] - 48 ELSE 1

\* relay states a board may be found in: all off, all on
InitialBits(relays) == {0, Pow2(relays) - 1}

(***************************************************************************)
(* Relay::releaseDevice                                                    *)
(***************************************************************************)
\* variant: the interface is released whatever the flag
ReleasesInterfaceAlways(deviceDetached) == deviceHandle = "open"

\* libusb_release_interface is called: the handle is open and the device is
\* not taken as detached
ReleasesInterface(deviceDetached) == deviceHandle = "open" /\ ~deviceDetached

releaseDevice(deviceDetached) ==
    /\ deviceHandle' = "null"
    /\ deviceInitialized' = FALSE
    /\ usbContinuousErrors' = 0
    /\ usbLastErrorCode' = 0
    /\ product' = <<>>
    /\ serial' = <<>>
    /\ count' = 0
    /\ board' = NoBoard

(***************************************************************************)
(* Relay::claimDevice, as called by Relay::run.  A step of the supervisor  *)
(* runs from one acquisition of _threadLock to the next.                   *)
(***************************************************************************)
\* locals of run and claimDevice; rejected is the product string the product
\* check has just refused (<<>> when it refused none); intfReleased tells
\* whether the last releaseDevice called libusb_release_interface; failed
\* counts the claims that failed since the last successful one; pollRes is
\* what the transfer of the poll before the loop-top check returned
SupIdle == [pc |-> "top", claimAttempts |-> 0, deviceDetached |-> FALSE,
            i |-> 0, timeout |-> 0, k |-> 0,
            cand |-> <<>>, snap |-> <<>>, rejected |-> <<>>,
            intfReleased |-> FALSE, failed |-> 0, pollRes |-> None]

\* top of the outer loop of run: stop, or start an enumeration
RunTop ==
    /\ Running
    /\ sup.pc = "top"
    /\ IF threadStop
       THEN /\ sup' = [sup EXCEPT !.pc = "final", !.intfReleased = FALSE]
            /\ UNCHANGED deviceInitialized
       ELSE /\ deviceInitialized' = FALSE
            /\ sup' = [sup EXCEPT !.pc = "scan", !.i = 0,
                                  !.intfReleased = FALSE]
    /\ UNCHANGED <<deviceHandle, usbContinuousErrors, usbLastErrorCode, product,
                   serial, states, count, initStates, attachSerial, threadLock,
                   threadStop, tgl, ss, board, events, calls, crashed>>

\* variant: the delay grows one failed claim earlier
BackoffEarly(claimAttempts) ==
    IF claimAttempts >= 40 THEN 15
    ELSE IF claimAttempts >= 20 THEN 10
    ELSE 2

\* the delay before the next claim
Backoff(claimAttempts) ==
    IF claimAttempts > 40 THEN 15
    ELSE IF claimAttempts > 20 THEN 10
    ELSE 2

\* The device list is exhausted, or the stop flag ends the loop: claimDevice
\* returns false, run releases the device and goes to sleep.
ClaimFailedUpTo(attempts) ==
    /\ Running
    /\ sup.pc = "scan"
    /\ sup.claimAttempts < attempts \/ threadStop
    /\ releaseDevice(FALSE)
    /\ sup' = [sup EXCEPT !.pc = "sleep", !.i = 0, !.cand = <<>>,
                          !.rejected = <<>>,
                          !.intfReleased = ReleasesInterface(FALSE),
                          !.failed = @ + 1,
                          !.timeout = Backoff(sup.claimAttempts)]
    /\ UNCHANGED <<states, initStates, attachSerial, threadLock, threadStop,
                   tgl, ss, events, calls, crashed>>

ClaimFailed == ClaimFailedUpTo(MaxClaimAttempts)

\* the same, followed through all three delays
ClaimFailedLong == ClaimFailedUpTo(MaxBackoffAttempts)

\* the sleep is over: count the attempt, look at the stop flag
SleepDone ==
    /\ Running
    /\ sup.pc = "sleep"
    /\ sup' = [sup EXCEPT !.pc = IF threadStop THEN "final" ELSE "top",
                          !.claimAttempts = @ + 1, !.timeout = 0]
    /\ UNCHANGED <<deviceHandle, deviceInitialized, usbContinuousErrors,
                   usbLastErrorCode, product, serial, states, count, initStates,
                   attachSerial, threadLock, threadStop, tgl, ss, board, events,
                   calls, crashed>>

\* a device that is no relay board, or that cannot be opened
ScanSkip ==
    /\ Running
    /\ sup.pc = "scan"
    /\ sup.i < MaxDevs
    /\ ~threadStop
    /\ deviceHandle' = "null"
    /\ sup' = [sup EXCEPT !.i = @ + 1, !.rejected = <<>>]
    /\ UNCHANGED <<deviceInitialized, usbContinuousErrors, usbLastErrorCode,
                   product, serial, states, count, initStates, attachSerial,
                   threadLock, threadStop, tgl, ss, board, events, calls,
                   crashed>>

\* variant: the length of the product string is not looked at
ProductPrefixOk(p) == HasBaseName(p) /\ Len(p) > Len(baseProductName)

\* the product string is "USBRelay" and one more character
ProductShapeOk(p) == HasBaseName(p) /\ Len(p) = Len(baseProductName) + 1

\* int(buff[len]) - int('0')
ProductRelayCount(p) == p[Len(baseProductName) + 1] - 48

\* the product string is accepted
ProductOk(p) == ProductShapeOk(p) /\ ProductRelayCount(p) \in countCheck

\* if (buff[serialLen + 1] != 0)
BadSerialString(buff) == buff[serialLen + 2] # 0

\* the 8 byte report of a board found on the bus
ReportOf(b, bits) == b.serial \o b.tail \o <<bits>>

\* A relay board is opened and probed: descriptors, product check, the first
\* readStates and the serial string.  It is closed again (USB_DEV_CLOSE;
\* continue) or kept open for the check of the attach serial.
ScanProbe(boards) ==
    /\ Running
    /\ sup.pc = "scan"
    /\ sup.i < MaxDevs
    /\ ~threadStop
    /\ \E b \in boards, descrOk \in BOOLEAN, res \in XferResults :
       \E bits \in InitialBits(BoardRelays(b.product)) :
         LET st == ReadStatesRet(res, ReportOf(b, bits)) IN
         IF ~descrOk \/ ~ProductOk(b.product)
         THEN /\ res = buffSize
              /\ deviceHandle' = "null"
              /\ sup' = [sup EXCEPT !.i = @ + 1,
                            !.rejected = IF descrOk THEN b.product ELSE <<>>]
              /\ UNCHANGED <<usbContinuousErrors, usbLastErrorCode, board>>
         ELSE /\ usbContinuousErrors' = ReadStatesErrors(res)
              /\ usbLastErrorCode' = ReadStatesLastError(res)
              /\ IF st < 0 \/ BadSerialString(ReportOf(b, bits))
                 THEN /\ deviceHandle' = "null"
                      /\ sup' = [sup EXCEPT !.i = @ + 1, !.rejected = <<>>]
                      /\ UNCHANGED board
                 ELSE /\ deviceHandle' = "open"
                      /\ board' = [bits |-> bits, serial |-> b.serial,
                                   tail |-> b.tail,
                                   relays |-> BoardRelays(b.product),
                                   claimed |-> FALSE, dead |-> FALSE]
                      /\ sup' = [sup EXCEPT !.pc = "attachCheck",
                           !.rejected = <<>>,
                           !.cand = [product |-> b.product,
                                     relayCount |-> ProductRelayCount(b.product),
                                     states |-> st,
                                     serial |-> fromLatin1(ReportOf(b, bits))]]
    /\ UNCHANGED <<deviceInitialized, product, serial, states, count,
                   initStates, attachSerial, threadLock, threadStop, tgl, ss,
                   events, calls, crashed>>

\* variant: the attach serial is not looked at
AttachSerialIgnored(s) == FALSE

\* the board's serial is not the one asked for
AttachSerialMismatch(s) == attachSerial # <<>> /\ attachSerial # s

\* USB_DEV_CLOSE; continue (cand keeps what was read from the closed board
\* until the next board is probed)
CloseAndContinue ==
    /\ deviceHandle' = "null"
    /\ board' = NoBoard
    /\ sup' = [sup EXCEPT !.pc = "scan", !.i = @ + 1]

\* Under the lock the serial is compared with _attachSerial; then the
\* config descriptor, the auto-detach flag and libusb_claim_interface.
ScanClaimInterface ==
    /\ Running
    /\ sup.pc = "attachCheck"
    /\ threadLock = "none"
    /\ \E ok \in BOOLEAN :
         IF AttachSerialMismatch(sup.cand.serial)
         THEN ok /\ CloseAndContinue
         ELSE IF ok
              THEN /\ board' = [board EXCEPT !.claimed = TRUE]
                   /\ sup' = [sup EXCEPT !.pc = "publish"]
                   /\ UNCHANGED deviceHandle
              ELSE CloseAndContinue
    /\ UNCHANGED <<deviceInitialized, usbContinuousErrors, usbLastErrorCode,
                   product, serial, states, count, initStates, attachSerial,
                   threadLock, threadStop, tgl, ss, events, calls, crashed>>

\* under the lock: publish the board; claimDevice returns true and run
\* marks the device initialized
ScanPublish ==
    /\ Running
    /\ sup.pc = "publish"
    /\ threadLock = "none"
    /\ product' = sup.cand.product
    /\ serial' = sup.cand.serial
    /\ states' = sup.cand.states % 256
    /\ count' = sup.cand.relayCount
    /\ deviceInitialized' = TRUE
    /\ sup' = [sup EXCEPT !.pc = "init", !.claimAttempts = 0,
                          !.failed = 0,
                          !.deviceDetached = FALSE, !.cand = <<>>, !.i = 0]
    /\ UNCHANGED <<deviceHandle, usbContinuousErrors, usbLastErrorCode,
                   initStates, attachSerial, threadLock, threadStop, tgl, ss,
                   board, events, calls, crashed>>

(***************************************************************************)
(* Relay::run after a successful claim                                     *)
(***************************************************************************)
\* _initStates.resize(_count) when it is longer
ClampInitStates(req, relayCount) ==
    IF Len(req) > relayCount THEN SubSeq(req, 1, relayCount) ELSE req

\* _initStates[i]: inside the vector its element; past its end the read is
\* undefined: it yields any int (0 and 1 stand for equal / different), or
\* the process dies (second disjunct of InitStep)
InitStateAt(req, i) == IF i <= Len(req) THEN {req[i]} ELSE {0, 1}

\* variant: the request is kept
KeepInitStates == initStates

\* _initStates.clear()
ClearInitStates == <<>>

\* under the lock: no request is pending; then emit attached()
InitNone ==
    /\ Running
    /\ sup.pc = "init"
    /\ threadLock = "none"
    /\ initStates = <<>>
    /\ events' = TRUE
    /\ sup' = [sup EXCEPT !.pc = "inner"]
    /\ UNCHANGED <<deviceHandle, deviceInitialized, usbContinuousErrors,
                   usbLastErrorCode, product, serial, states, count, initStates,
                   attachSerial, threadLock, threadStop, tgl, ss, board, calls,
                   crashed>>

\* under the lock: clamp the request and take the current states
InitBegin ==
    /\ Running
    /\ sup.pc = "init"
    /\ threadLock = "none"
    /\ initStates # <<>>
    /\ threadLock' = "sup"
    /\ initStates' = ClampInitStates(initStates, count)
    /\ sup' = [sup EXCEPT !.pc = "initLoop", !.k = 0, !.snap = statesInternal]
    /\ UNCHANGED <<deviceHandle, deviceInitialized, usbContinuousErrors,
                   usbLastErrorCode, product, serial, states, count,
                   attachSerial, threadStop, tgl, ss, board, events, calls,
                   crashed>>

\* one round of the loop over the relays: start a toggleInternal where the
\* request differs from the states read at the start
InitStep ==
    /\ Running
    /\ sup.pc = "initLoop"
    /\ tgl["sup"].pc \in {"idle", "ret"}
    /\ sup.k < count
    /\ \/ /\ \E x \in InitStateAt(initStates, sup.k + 1) :
                IF x # sup.snap[sup.k + 1]
                THEN TglEnter("sup", sup.k + 1, x # 0)
                ELSE tgl' = [tgl EXCEPT !["sup"] = TglIdle]
          /\ sup' = [sup EXCEPT !.k = @ + 1]
          /\ UNCHANGED crashed
       \/ /\ sup.k + 1 > Len(initStates)
          /\ crashed' = TRUE
          /\ UNCHANGED <<sup, tgl>>
    /\ UNCHANGED <<deviceHandle, deviceInitialized, usbContinuousErrors,
                   usbLastErrorCode, product, serial, states, count, initStates,
                   attachSerial, threadLock, threadStop, ss, board, events,
                   calls>>

\* the loop is over: the request is cleared, the lock released and
\* attached() emitted
InitEnd ==
    /\ Running
    /\ sup.pc = "initLoop"
    /\ tgl["sup"].pc \in {"idle", "ret"}
    /\ sup.k >= count
    /\ initStates' = ClearInitStates
    /\ threadLock' = "none"
    /\ tgl' = [tgl EXCEPT !["sup"] = TglIdle]
    /\ events' = TRUE
    /\ sup' = [sup EXCEPT !.pc = "inner", !.k = 0, !.snap = <<>>]
    /\ UNCHANGED <<deviceHandle, deviceInitialized, usbContinuousErrors,
                   usbLastErrorCode, product, serial, states, count,
                   attachSerial, threadStop, ss, board, calls, crashed>>

(***************************************************************************)
(* Relay::run of the libusb-0.1 variant after a successful capture: it     *)
(* emits attached() first and applies the request to init() afterwards.    *)
(* The loop over the relays is the same code (InitStep, toggleInternal).   *)
(***************************************************************************)
\* emit attached()
Run0Attached ==
    /\ Running
    /\ sup.pc = "init"
    /\ events' = TRUE
    /\ sup' = [sup EXCEPT !.pc = "init0"]
    /\ UNCHANGED <<deviceHandle, deviceInitialized, usbContinuousErrors,
                   usbLastErrorCode, product, serial, states, count, initStates,
                   attachSerial, threadLock, threadStop, tgl, ss, board, calls,
                   crashed>>

\* under the lock: no request is pending
Run0InitNone ==
    /\ Running
    /\ sup.pc = "init0"
    /\ threadLock = "none"
    /\ initStates = <<>>
    /\ sup' = [sup EXCEPT !.pc = "inner"]
    /\ UNCHANGED <<deviceHandle, deviceInitialized, usbContinuousErrors,
                   usbLastErrorCode, product, serial, states, count, initStates,
                   attachSerial, threadLock, threadStop, tgl, ss, board, events,
                   calls, crashed>>

\* under the lock: clamp the request and take the current states
Run0InitBegin ==
    /\ Running
    /\ sup.pc = "init0"
    /\ threadLock = "none"
    /\ initStates # <<>>
    /\ threadLock' = "sup"
    /\ initStates' = ClampInitStates(initStates, count)
    /\ sup' = [sup EXCEPT !.pc = "initLoop", !.k = 0, !.snap = statesInternal]
    /\ UNCHANGED <<deviceHandle, deviceInitialized, usbContinuousErrors,
                   usbLastErrorCode, product, serial, states, count,
                   attachSerial, threadStop, tgl, ss, board, events, calls,
                   crashed>>

\* the loop is over: the request is cleared and the lock released
Run0InitEnd ==
    /\ Running
    /\ sup.pc = "initLoop"
    /\ tgl["sup"].pc \in {"idle", "ret"}
    /\ sup.k >= count
    /\ initStates' = ClearInitStates
    /\ threadLock' = "none"
    /\ tgl' = [tgl EXCEPT !["sup"] = TglIdle]
    /\ sup' = [sup EXCEPT !.pc = "inner", !.k = 0, !.snap = <<>>]
    /\ UNCHANGED <<deviceHandle, deviceInitialized, usbContinuousErrors,
                   usbLastErrorCode, product, serial, states, count,
                   attachSerial, threadStop, ss, board, events, calls, crashed>>

\* variant: the first threshold without the error code
DeviceRemovedAnyCode == usbContinuousErrors >= USB_CONTINUOUS_ERRORS_1

\* the device is taken as removed
DeviceRemoved ==
    /\ usbContinuousErrors >= USB_CONTINUOUS_ERRORS_1
    /\ usbLastErrorCode = LIBUSB_ERROR_NO_DEVICE

\* too many failed transfers in a row
TooManyErrors == usbContinuousErrors >= USB_CONTINUOUS_ERRORS_2

\* top of the inner loop: stop flag and the two thresholds
InnerTop ==
    /\ Running
    /\ sup.pc = "inner"
    /\ sup' = IF threadStop
              THEN [sup EXCEPT !.pc = "emitDetached", !.pollRes = None]
              ELSE IF DeviceRemoved \/ TooManyErrors
                   THEN [sup EXCEPT !.pc = "emitDetached", !.pollRes = None,
                                    !.deviceDetached = TRUE]
              ELSE [sup EXCEPT !.pc = "wait", !.pollRes = None]
    /\ UNCHANGED <<deviceHandle, deviceInitialized, usbContinuousErrors,
                   usbLastErrorCode, product, serial, states, count, initStates,
                   attachSerial, threadLock, threadStop, tgl, ss, board, events,
                   calls, crashed>>

\* variant: a poll never changes _states
PollStatesKept(st) == states

\* _states after a poll that returned st
PollStates(st) == IF st < 0 THEN states ELSE st % 256

\* _threadCond.wait under the lock; unless the stop flag is set, readStates
\* under the lock, and a change from outside is adopted
InnerPoll ==
    /\ Running
    /\ sup.pc = "wait"
    /\ threadLock = "none"
    /\ IF threadStop
       THEN /\ UNCHANGED <<usbContinuousErrors, usbLastErrorCode, states>>
            /\ sup' = [sup EXCEPT !.pc = "inner"]
       ELSE \E res \in Results :
              /\ usbContinuousErrors' = ReadStatesErrors(res)
              /\ usbLastErrorCode' = ReadStatesLastError(res)
              /\ states' = PollStates(ReadStatesRet(res, BoardReport))
              /\ sup' = [sup EXCEPT !.pc = "inner", !.pollRes = res]
    /\ UNCHANGED <<deviceHandle, deviceInitialized, product, serial, count,
                   initStates, attachSerial, threadLock, threadStop, tgl, ss,
                   board, events, calls, crashed>>

\* variant: the inner loop is left without the signal
EmitDetachedSilent ==
    /\ Running
    /\ sup.pc = "emitDetached"
    /\ sup' = [sup EXCEPT !.pc = "release"]
    /\ UNCHANGED <<deviceHandle, deviceInitialized, usbContinuousErrors,
                   usbLastErrorCode, product, serial, states, count, initStates,
                   attachSerial, threadLock, threadStop, tgl, ss, board, calls,
                   events, crashed>>

\* emit detached()
EmitDetached ==
    /\ Running
    /\ sup.pc = "emitDetached"
    /\ events' = FALSE
    /\ sup' = [sup EXCEPT !.pc = "release"]
    /\ UNCHANGED <<deviceHandle, deviceInitialized, usbContinuousErrors,
                   usbLastErrorCode, product, serial, states, count, initStates,
                   attachSerial, threadLock, threadStop, tgl, ss, board, calls,
                   crashed>>

\* releaseDevice(deviceDetached) at the end of a session
SessionRelease ==
    /\ Running
    /\ sup.pc = "release"
    /\ releaseDevice(sup.deviceDetached)
    /\ sup' = [sup EXCEPT !.pc = "top",
                          !.intfReleased = ReleasesInterface(sup.deviceDetached)]
    /\ UNCHANGED <<states, initStates, attachSerial, threadLock, threadStop,
                   tgl, ss, events, calls, crashed>>

\* releaseDevice(deviceDetached) after the outer loop
FinalRelease ==
    /\ Running
    /\ sup.pc = "final"
    /\ releaseDevice(sup.deviceDetached)
    /\ sup' = [sup EXCEPT !.pc = "done",
                          !.intfReleased = ReleasesInterface(sup.deviceDetached)]
    /\ UNCHANGED <<states, initStates, attachSerial, threadLock, threadStop,
                   tgl, ss, events, calls, crashed>>

(***************************************************************************)
(* Relay::setSerial, called by a client thread                             *)
(***************************************************************************)
\* locals: value, buff (the SET report, then the report read back), ret;
\* history of the call: sent (the SET report), old (_serial at entry), the
\* control transfers issued
SsIdle == [pc |-> "idle", value |-> <<>>, buff |-> <<>>, sent |-> <<>>,
           ret |-> FALSE, xfers |-> 0, newSerial |-> <<>>, old |-> <<>>]

\* QStrings a client passes: "AB", "", "TOO-LONG", "A B", "A" DEL, e-acute,
\* "!~", "ABCDE" DEL
SerialInputs ==
    { <<65, 66>>, <<>>, <<84, 79, 79, 45, 76, 79, 78, 71>>, <<65, 32, 66>>,
      <<65, 127>>, <<233>>, <<33, 126>>, <<65, 66, 67, 68, 69, 127>> }

\* val.resize(serialLen) when longer, then val.append('0') up to serialLen
RECURSIVE PadSerial(_)
PadSerial(val) ==
    IF Len(val) > serialLen THEN SubSeq(val, 1, serialLen)
    ELSE IF Len(val) < serialLen THEN PadSerial(Append(val, 48))
    ELSE val

\* variant: the two limits are themselves accepted
BadSerialCharStrict(ch) == ch < 32 \/ ch > 127

\* (ch <= 0x20) || (ch >= 0x7F)
BadSerialChar(ch) == ch <= 32 \/ ch >= 127

SerialInvalid(val) == \E i \in 1..serialLen : BadSerialChar(val[i])

\* variant: the serial is written one byte further
SerialReportShifted(val) == <<250, 0>> \o val \o <<0>>

\* buff[0] = 0xFA, buff[1..5] = val, the rest zero
SerialReport(val) == <<250>> \o val \o <<0, 0>>

\* conversion, padding and the character check, up to the SET transfer
SetSerialCall ==
    /\ Running
    /\ ss.pc = "idle"
    /\ calls.setSerial < MaxSetSerials
    /\ \E value \in SerialInputs :
         LET val == PadSerial(toUtf8(value))
             r   == [SsIdle EXCEPT !.value = value, !.old = serial]
         IN  ss' = IF SerialInvalid(val)
                   THEN [r EXCEPT !.pc = "ret", !.ret = FALSE]
                   ELSE [r EXCEPT !.pc = "set", !.buff = SerialReport(val),
                                  !.sent = SerialReport(val)]
    /\ calls' = [calls EXCEPT !.setSerial = @ + 1]
    /\ UNCHANGED <<deviceHandle, deviceInitialized, usbContinuousErrors,
                   usbLastErrorCode, product, serial, states, count, initStates,
                   attachSerial, threadLock, threadStop, sup, tgl, board,
                   events, crashed>>

\* the SET transfer; the board stores bytes 1..5
SsSet ==
    /\ Running
    /\ ss.pc = "set"
    /\ \E res \in Results :
         LET r == [ss EXCEPT !.xfers = @ + 1] IN
         IF TransferFailed(res)
         THEN /\ usbLastErrorCode' = FailedLastErrorCode(res)
              /\ usbContinuousErrors' = usbContinuousErrors + 1
              /\ ss' = [r EXCEPT !.pc = "ret", !.ret = FALSE]
              /\ board' = board
         ELSE /\ UNCHANGED <<usbLastErrorCode, usbContinuousErrors>>
              /\ ss' = [r EXCEPT !.pc = "read"]
              /\ board' = [board EXCEPT !.serial = SubSeq(r.buff, 2, serialLen + 1)]
    /\ UNCHANGED <<deviceHandle, deviceInitialized, product, serial, states,
                   count, initStates, attachSerial, threadLock, threadStop,
                   sup, tgl, events, calls, crashed>>

\* readStates and the check of the terminator
SsRead ==
    /\ Running
    /\ ss.pc = "read"
    /\ \E res \in Results :
         LET st == ReadStatesRet(res, BoardReport)
             r  == [ss EXCEPT !.xfers = @ + 1]
         IN  /\ usbContinuousErrors' = ReadStatesErrors(res)
             /\ usbLastErrorCode' = ReadStatesLastError(res)
             /\ ss' = IF st < 0 \/ BadSerialString(BoardReport)
                      THEN [r EXCEPT !.pc = "ret", !.ret = FALSE]
                      ELSE [r EXCEPT !.pc = "store", !.buff = BoardReport,
                                     !.newSerial = fromLatin1(BoardReport)]
    /\ UNCHANGED <<deviceHandle, deviceInitialized, product, serial, states,
                   count, initStates, attachSerial, threadLock, threadStop,
                   sup, tgl, board, events, calls, crashed>>

\* under the lock: _serial = serial; return true
SsStore ==
    /\ Running
    /\ ss.pc = "store"
    /\ threadLock = "none"
    /\ serial' = ss.newSerial
    /\ ss' = [ss EXCEPT !.pc = "ret", !.ret = TRUE]
    /\ UNCHANGED <<deviceHandle, deviceInitialized, usbContinuousErrors,
                   usbLastErrorCode, product, states, count, initStates,
                   attachSerial, threadLock, threadStop, sup, tgl, board,
                   events, calls, crashed>>

\* setSerial has returned
SetSerialReturn ==
    /\ ~crashed
    /\ ss.pc = "ret"
    /\ ss' = SsIdle
    /\ UNCHANGED <<deviceHandle, deviceInitialized, usbContinuousErrors,
                   usbLastErrorCode, product, serial, states, count, initStates,
                   attachSerial, threadLock, threadStop, sup, tgl, board,
                   events, calls, crashed>>

(***************************************************************************)
(* The environment                                                         *)
(***************************************************************************)
\* QThreadEx::stop
Stop ==
    /\ Running
    /\ ~threadStop
    /\ threadStop' = TRUE
    /\ UNCHANGED <<deviceHandle, deviceInitialized, usbContinuousErrors,
                   usbLastErrorCode, product, serial, states, count, initStates,
                   attachSerial, threadLock, sup, tgl, ss, board, events, calls,
                   crashed>>

\* the relay with a button: the last one (as a bit index)
ButtonRelays(relays) == {relays - 1}

\* a relay of the open board is switched from outside
ExternalChange ==
    /\ Running
    /\ deviceHandle = "open"
    /\ calls.external < MaxExternal
    /\ \E i \in ButtonRelays(board.relays) :
         board' = [board EXCEPT !.bits =
                     IF BitSet(@, i) THEN AndNotBit(@, i) ELSE OrBit(@, i)]
    /\ calls' = [calls EXCEPT !.external = @ + 1]
    /\ UNCHANGED <<deviceHandle, deviceInitialized, usbContinuousErrors,
                   usbLastErrorCode, product, serial, states, count, initStates,
                   attachSerial, threadLock, threadStop, sup, tgl, ss, events,
                   crashed>>

\* from now on the attached board fails every transfer
BoardFails ==
    /\ Running
    /\ deviceInitialized
    /\ deviceHandle = "open"
    /\ ~board.dead
    /\ board' = [board EXCEPT !.dead = TRUE]
    /\ UNCHANGED <<deviceHandle, deviceInitialized, usbContinuousErrors,
                   usbLastErrorCode, product, serial, states, count, initStates,
                   attachSerial, threadLock, threadStop, sup, tgl, ss, events,
                   calls, crashed>>

\* a thread is about to issue a control transfer
AtTransfer ==
    \/ \E th \in Threads : tgl[th].pc \in {"preread", "set", "reread"}
    \/ ss.pc \in {"set", "read"}

\* libusb_control_transfer dereferences a null handle
Crash ==
    /\ Running
    /\ deviceHandle = "null"
    /\ AtTransfer
    /\ crashed' = TRUE
    /\ UNCHANGED <<deviceHandle, deviceInitialized, usbContinuousErrors,
                   usbLastErrorCode, product, serial, states, count, initStates,
                   attachSerial, threadLock, threadStop, sup, tgl, ss, board,
                   events, calls>>

(***************************************************************************)
(* Specifications                                                          *)
(***************************************************************************)
\* requests passed to init()
InitRequests == {<<>>, <<1, 0>>}

\* serials passed to setAttachSerial() before the thread starts
AttachSerials == {<<>>, SerialAB}

InitWith(requests, serials) ==
    /\ deviceHandle = "null"
    /\ deviceInitialized = FALSE
    /\ usbContinuousErrors = 0
    /\ usbLastErrorCode = 0
    /\ product = <<>>
    /\ serial = <<>>
    /\ states = 0
    /\ count = 0
    /\ initStates \in requests
    /\ attachSerial \in serials
    /\ threadLock = "none"
    /\ threadStop = FALSE
    /\ sup = SupIdle
    /\ tgl = [th \in Threads |-> TglIdle]
    /\ ss = SsIdle
    /\ board = NoBoard
    /\ events = FALSE
    /\ calls = [toggle |-> 0, setSerial |-> 0, external |-> 0]
    /\ crashed = FALSE

Init == InitWith(InitRequests, AttachSerials)

\* Relay::run against the boards an enumeration may find
Supervisor(boards) ==
    \/ RunTop \/ ClaimFailed \/ SleepDone
    \/ ScanSkip \/ ScanProbe(boards) \/ ScanClaimInterface \/ ScanPublish
    \/ InitNone
    \/ InnerTop \/ InnerPoll \/ EmitDetached
    \/ SessionRelease

\* Relay::run through long runs of failed claims, against one 1-relay board
BackoffBoards == { Board(<<49>>, SerialAB, <<0, 0>>) }

NextBackoff ==
    \/ RunTop \/ ClaimFailedLong \/ SleepDone
    \/ ScanSkip \/ ScanProbe(BackoffBoards) \/ ScanClaimInterface \/ ScanPublish
    \/ InitNone
    \/ InnerTop \/ InnerPoll \/ EmitDetached
    \/ SessionRelease

\* Relay::run of the libusb-0.1 variant with a request to init(); capture
\* and steady-state loop have the shape of the libusb-1.0 ones
NextInit0 ==
    \/ RunTop \/ ClaimFailed \/ SleepDone
    \/ ScanSkip \/ ScanProbe(SizeBoards) \/ ScanClaimInterface \/ ScanPublish
    \/ Run0Attached \/ Run0InitNone \/ Run0InitBegin \/ InitStep \/ Run0InitEnd
    \/ TglPreRead("sup") \/ TglSet("sup") \/ TglReRead("sup")
    \/ InnerTop \/ InnerPoll \/ EmitDetached
    \/ SessionRelease

\* the thread is asked to stop, and run leaves its outer loop
Shutdown == Stop \/ FinalRelease

\* the initial-state request is applied after the claim
InitialStates ==
    \/ InitBegin \/ InitStep \/ InitEnd
    \/ TglPreRead("sup") \/ TglSet("sup") \/ TglReRead("sup")

\* a client thread calls toggle()
ToggleClient ==
    \/ ToggleCall
    \/ TglPreRead("tog") \/ TglSet("tog") \/ TglReRead("tog")
    \/ ToggleReturn

\* a client thread calls setSerial()
SerialClient == SetSerialCall \/ SsSet \/ SsRead \/ SsStore \/ SetSerialReturn

\* the whole program
Next ==
    \/ Supervisor(AllBoards) \/ InitialStates
    \/ ToggleClient \/ SerialClient
    \/ Shutdown \/ ExternalChange \/ Crash

Spec == Init /\ [][Next]_vars

\* toggle() from a client thread while the supervisor runs; no request to
\* init(), no attach serial
NextToggle ==
    \/ Supervisor(SizeBoards) \/ ToggleClient \/ ExternalChange \/ Crash

SpecToggle == InitWith({<<>>}, {<<>>}) /\ [][NextToggle]_vars

\* setSerial() from a client thread while the supervisor runs
NextSerial ==
    \/ Supervisor(SerialBoards) \/ SerialClient \/ Crash

SpecSerial == InitWith({<<>>}, AttachSerials) /\ [][NextSerial]_vars

\* the supervisor alone, from start to stop, with a request to init() and an
\* attach serial
NextRun ==
    \/ Supervisor(AllBoards) \/ InitialStates \/ Shutdown \/ ExternalChange

SpecRun == Init /\ [][NextRun]_vars

\* the supervisor with the request [true, false] passed to init(), against
\* boards of each size
NextInit ==
    \/ Supervisor(SizeBoards) \/ InitialStates \/ ExternalChange

SpecInit == InitWith({<<1, 0>>}, {<<>>}) /\ [][NextInit]_vars

\* setSerial() from a client thread while the supervisor applies the request
\* [true, false] passed to init()
NextSerialInit ==
    \/ Supervisor(SerialBoards) \/ InitialStates \/ SerialClient

SpecSerialInit == InitWith({<<1, 0>>}, {<<>>}) /\ [][NextSerialInit]_vars

SpecBackoff == InitWith({<<>>}, {<<>>}) /\ [][NextBackoff]_vars

SpecInit0 == InitWith({<<1, 0>>}, {<<>>}) /\ [][NextInit0]_vars

\* Relay::run, and FinalRelease after its loop
RunThread == Supervisor(SizeBoards) \/ FinalRelease

\* a toggle() that was entered goes on to its return
ToggleProgress ==
    \/ TglPreRead("tog") \/ TglSet("tog") \/ TglReRead("tog") \/ ToggleReturn

\* The supervisor from start to stop while a client thread calls toggle() and
\* the board may fail.  A transfer through a null handle is taken to fail.
\* Both threads are scheduled again and again: a step that stays possible is
\* taken (every transfer, wait and sleep returns).
NextLive ==
    \/ Supervisor(SizeBoards) \/ Shutdown \/ ToggleClient \/ BoardFails

SpecLive ==
    /\ InitWith({<<>>}, {<<>>})
    /\ [][NextLive]_vars
    /\ WF_vars(RunThread)
    /\ WF_vars(ToggleProgress)

(***************************************************************************)
(* Properties of toggle(), checked under SpecToggle.  A call of the client *)
(* thread is looked at in the state where it is about to return.           *)
(***************************************************************************)
\* the client's toggle() has its result
TogDone == tgl["tog"].pc = "ret"

\* the step in which the client enters toggle()
TogEnters == tgl["tog"].pc = "idle" /\ tgl'["tog"].pc # "idle"

\* C1: a toggle() made while no board is attached returns false at once,
\* emits exactly one failChange and no changed, issues no control transfer
\* and leaves _states, both error counters and the board as they were; so
\* does its return.
C1_NotAttachedToggle ==
    [][ /\ (TogEnters /\ ~deviceInitialized) =>
             /\ tgl'["tog"].pc = "ret"
             /\ tgl'["tog"].ret = FALSE
             /\ tgl'["tog"].failChange = 1
             /\ tgl'["tog"].changed = 0
             /\ tgl'["tog"].xfers = 0
             /\ UNCHANGED <<states, usbContinuousErrors, usbLastErrorCode, board>>
        /\ (TogDone /\ tgl'["tog"].pc = "idle") =>
             UNCHANGED <<states, usbContinuousErrors, usbLastErrorCode, board>>
      ]_vars

\* a call made while not attached is about to return false
C1_Witness ==
    /\ TogDone /\ ~deviceInitialized
    /\ tgl["tog"].xfers = 0 /\ tgl["tog"].failChange = 1 /\ ~tgl["tog"].ret
    /\ tgl["tog"].relayNumber = 1

\* C2: a toggle() on an attached board with relayNumber above the relay
\* count returns false without a transfer and leaves _states unchanged.
\* (The call never returns: it blocks on the lock it holds.)
C2_OutOfRangeReturns ==
    [][ (TogEnters /\ deviceInitialized /\ tgl'["tog"].relayNumber > count) =>
             /\ tgl'["tog"].pc = "ret"
             /\ tgl'["tog"].ret = FALSE
             /\ tgl'["tog"].xfers = 0
             /\ states' = states
      ]_vars

\* C3 (as stated): after a successful toggle(n, value) with n >= 1, states()
\* holds value at index n - 1 and at every other index what it held before
\* the call.
C3_OthersAsBefore ==
    LET r == tgl["tog"] IN
    (TogDone /\ r.ret /\ r.relayNumber >= 1) =>
        /\ Len(statesInternal) >= r.relayNumber
        /\ \A i \in 1..Len(statesInternal) :
             statesInternal[i] =
                IF i = r.relayNumber THEN (IF r.value THEN 1 ELSE 0)
                ELSE (IF BitSet(r.old, i - 1) THEN 1 ELSE 0)

\* C3 (amended): after a successful toggle(n, value) with n >= 1, bit n - 1
\* of _states is value and every other bit is what the GET at the start of
\* that call reported.
C3_OthersAsPreRead ==
    LET r == tgl["tog"] IN
    (TogDone /\ r.ret /\ r.relayNumber >= 1) =>
        /\ r.pre >= 0
        /\ \A i \in 0..7 :
             BitSet(states, i) =
                IF i = r.relayNumber - 1 THEN r.value ELSE BitSet(r.pre, i)

\* a successful toggle of one relay after the board was changed from outside
C3_Witness ==
    LET r == tgl["tog"] IN
    /\ TogDone /\ r.ret /\ r.relayNumber = 1 /\ r.value
    /\ r.pre # r.old /\ states # OrBit(r.old, 0)

\* C4: toggle(n, value) with n <= 0 computes the expected bitmask as
\* 2^count - 1 (value true) or 0 (value false) without a GET before the SET;
\* when it succeeds, states() holds true (false) at every index.
C4_ToggleAll ==
    LET r == tgl["tog"]
        expected == IF r.value THEN Pow2(r.relayCount) - 1 ELSE 0
    IN
    (r.pc \in {"set", "reread", "ret"} /\ r.relayCount > 0 /\ r.relayNumber <= 0) =>
        /\ r.expectStates = expected
        /\ r.pre = None
        /\ r.pc = "set" => r.xfers = 0
        /\ (r.pc = "ret" /\ r.ret) =>
             /\ r.xfers = 2
             /\ states = expected
             /\ \A i \in 1..Len(statesInternal) :
                  statesInternal[i] = IF r.value THEN 1 ELSE 0

\* all four relays of a board were switched on
C4_Witness ==
    LET r == tgl["tog"] IN
    /\ TogDone /\ r.ret /\ r.relayNumber <= 0 /\ r.value
    /\ r.relayCount = 4 /\ statesInternal = <<1, 1, 1, 1>> /\ r.old = 0

\* C5: a toggle() that passed the attach and range checks returns true
\* exactly when the SET moved 8 bytes, the GET after it succeeded and the
\* bitmask it read equals the expected one; then _states is the expected one.
C5_TrueIffVerified ==
    LET r == tgl["tog"] IN
    (TogDone /\ r.relayCount > 0) =>
        /\ r.ret <=> (r.res = buffSize /\ r.rd >= 0 /\ r.rd = r.expectStates)
        /\ r.ret => states = r.expectStates

\* a verified toggle of the last relay of the largest board
C5_Witness ==
    LET r == tgl["tog"] IN
    /\ TogDone /\ r.ret /\ r.relayNumber = 8 /\ r.res = buffSize
    /\ r.rd = r.expectStates /\ states = r.expectStates /\ states # r.old

\* C6 (as stated): a toggle() that returns false leaves _states as it was
\* before the call.
C6_FalseKeepsStates ==
    LET r == tgl["tog"] IN
    (TogDone /\ ~r.ret) => states = r.old

\* C6 (amended): a toggle() that returns false leaves _states as it was
\* before the call, unless the GET after the SET succeeded: then _states is
\* the bitmask that GET reported (which differs from the expected one).  A
\* call blocked on the range check leaves _states as it was.
C6_FalseKeepsOrAdopts ==
    LET r == tgl["tog"] IN
    /\ (TogDone /\ ~r.ret) =>
          IF r.rd >= 0 THEN states = r.rd /\ r.rd # r.expectStates
          ELSE states = r.old
    /\ r.pc = "selfLock" => states = r.old

\* a toggle() returned false and _states is no longer what it was
C6_Witness ==
    LET r == tgl["tog"] IN
    /\ TogDone /\ ~r.ret /\ r.rd >= 0 /\ states # r.old

\* C7: a toggle() that completes has emitted exactly one signal: changed
\* when it returns true, failChange when it returns false.
C7_OneSignal ==
    LET r == tgl["tog"] IN
    TogDone =>
        /\ r.changed + r.failChange = 1
        /\ r.ret <=> r.changed = 1
        /\ ~r.ret <=> r.failChange = 1

\* a toggle() fails on its third transfer
C7_Witness ==
    LET r == tgl["tog"] IN
    TogDone /\ ~r.ret /\ r.xfers = 3 /\ r.failChange = 1 /\ r.changed = 0

\* the mask with bit n - 1 set, and cleared
WithBit(mask, n) ==
    IF (mask \div (2 ^ (n - 1))) % 2 = 1 THEN mask ELSE mask + 2 ^ (n - 1)
WithoutBit(mask, n) ==
    IF (mask \div (2 ^ (n - 1))) % 2 = 1 THEN mask - 2 ^ (n - 1) ELSE mask

\* C28: the SET report of a toggle is FF, N to turn relay N on, FD, N to
\* turn it off, FE, 0 for all on and FC, 0 for all off, with bytes 2..7
\* zero; for a single relay the expected mask is the mask just read with bit
\* N - 1 set or cleared.  (Checked under SpecToggle.)
C28_SetReport ==
    \A th \in Threads :
      LET r == tgl[th] IN
      r.pc \in {"set", "reread"} =>
        /\ Len(r.buff) = 8
        /\ \A i \in 3..8 : r.buff[i] = 0
        /\ r.buff[2] = r.relayNumber
        /\ r.relayNumber = 0 => r.buff[1] = IF r.value THEN 254 ELSE 252
        /\ r.relayNumber # 0 =>
              /\ r.relayNumber \in 1..r.relayCount
              /\ r.buff[1] = IF r.value THEN 255 ELSE 253
              /\ r.expectStates = IF r.value THEN WithBit(r.pre, r.relayNumber)
                                  ELSE WithoutBit(r.pre, r.relayNumber)

\* relay 8 of an 8-relay board, all off, is about to be turned on
C28_Witness ==
    /\ tgl["tog"].pc = "set" /\ tgl["tog"].relayNumber = 8 /\ tgl["tog"].value
    /\ tgl["tog"].buff = <<255, 8, 0, 0, 0, 0, 0, 0>>
    /\ tgl["tog"].pre = 0 /\ tgl["tog"].expectStates = 128

\* detached() has been emitted and attached() not yet again: the supervisor
\* is at the release, or on its way to the next claim
AfterDetached ==
    /\ ~events
    /\ sup.pc \in {"release", "top", "scan", "sleep", "attachCheck", "publish"}

\* C33: a toggle() called between detached() and the next attached() fails
\* with one failChange, issues no transfer and emits no changed.
\* (Checked under SpecToggle.)
C33_NoToggleAfterDetached ==
    [][ (AfterDetached /\ TogEnters) =>
            /\ tgl'["tog"].pc = "ret" /\ ~tgl'["tog"].ret
            /\ tgl'["tog"].failChange = 1 /\ tgl'["tog"].changed = 0
            /\ tgl'["tog"].xfers = 0
      ]_vars

(***************************************************************************)
(* Properties of setSerial(), checked under SpecSerial.  A call is looked  *)
(* at in the state where it is about to return.                            *)
(***************************************************************************)
\* setSerial() has its result
SsDone == ss.pc = "ret"

\* a byte outside the printable range
Unprintable(b) == b <= 32 \/ b >= 127

\* C8 (as stated): a setSerial() whose string holds a character with code
\* <= 0x20 or >= 0x7F returns false, sends no SET and leaves _serial as it
\* was.
C8_BadCharRejected ==
    (SsDone /\ \E i \in 1..Len(ss.value) : Unprintable(ss.value[i])) =>
        /\ ss.ret = FALSE
        /\ ss.xfers = 0
        /\ serial = ss.old

\* C8 (amended): a setSerial() whose string, as UTF-8, holds a byte <= 0x20
\* or >= 0x7F among its first five bytes returns false, sends no SET and
\* leaves _serial as it was.
C8_BadByteRejected ==
    LET v == toUtf8(ss.value) IN
    (SsDone /\ \E i \in 1..Len(v) : i <= 5 /\ Unprintable(v[i])) =>
        /\ ss.ret = FALSE
        /\ ss.xfers = 0
        /\ serial = ss.old

\* "A B" was rejected while a board with a serial was attached
C8_Witness ==
    /\ SsDone /\ ss.value = <<65, 32, 66>> /\ ~ss.ret /\ ss.xfers = 0
    /\ deviceInitialized /\ serial = SerialCD

\* the report read back carries the serial that was sent, followed by zeros
\* in bytes 5 and 6
Echoed == SubSeq(ss.buff, 1, 7) = SubSeq(ss.sent, 2, 6) \o <<0, 0>>

AttachChecked == sup.pc = "attachCheck" /\ sup'.pc # "attachCheck"

\* C10: with a non-empty attach serial, a board whose serial differs is
\* never claimed and never published; the step that finds the difference
\* closes the handle and goes on with the next device, leaving the published
\* fields alone; only a board with the attach serial is published.
C10_AttachSerialOnly ==
    /\ [](attachSerial # <<>> =>
            /\ board.claimed => fromLatin1(BoardReport) = attachSerial
            /\ sup.pc = "publish" => sup.cand.serial = attachSerial
            /\ deviceInitialized => serial = attachSerial)
    /\ [][ (AttachChecked /\ attachSerial # <<>>
                          /\ sup.cand.serial # attachSerial) =>
             /\ deviceHandle' = "null"
             /\ ~board'.claimed
             /\ sup'.pc = "scan" /\ sup'.i = sup.i + 1
             /\ UNCHANGED <<product, serial, states, count, deviceInitialized>>
        ]_vars

\* a board with another serial was closed and the scan goes on
C10_Witness ==
    /\ attachSerial = SerialAB
    /\ sup.pc = "scan" /\ sup.i = 1 /\ sup.cand # <<>>
    /\ sup.cand.serial = SerialCD
    /\ deviceHandle = "null" /\ ~deviceInitialized /\ serial = <<>>

\* "USBRelay1", "USBRelay2", "USBRelay4", "USBRelay8"
AcceptedProducts ==
    { <<85, 83, 66, 82, 101, 108, 97, 121, d>> : d \in {49, 50, 52, 56} }

C18_CountAndStates ==
    /\ deviceInitialized => count \in {1, 2, 4, 8}
    /\ Len(statesInternal) = count
    /\ \A i \in 0..(count - 1) :
          statesInternal[i + 1] = (states \div (2 ^ i)) % 2

\* a 4-relay board is attached with relays 1..3 on and relay 4 off
C18_Witness ==
    /\ deviceInitialized /\ count = 4 /\ states = 7
    /\ statesInternal = <<1, 1, 1, 0>>

\* what the loop-top check of the steady-state loop may find to end a session
ExitFound ==
    \/ threadStop
    \/ /\ usbContinuousErrors >= 3
       /\ usbLastErrorCode = LIBUSB_ERROR_NO_DEVICE
    \/ usbContinuousErrors >= 5

\* C19: while attached the supervisor leaves the steady-state loop, emits
\* detached and ends the session only from its loop-top check, and only when
\* that check finds a stop request, 3 or more errors in a row with the
\* device-removed code, or 5 or more errors in a row; a check below these
\* thresholds goes on to the next wait.  (Checked under SpecRun.)
C19_LoopExit ==
    [][ /\ (sup.pc # "emitDetached" /\ sup'.pc = "emitDetached") =>
              sup.pc = "inner" /\ deviceInitialized /\ ExitFound
        /\ (sup.pc = "inner" /\ sup'.pc # "inner" /\ ~ExitFound) =>
              sup'.pc = "wait" /\ deviceInitialized' /\ events'
        /\ (sup.pc \in {"inner", "wait"} /\ sup'.pc \in {"inner", "wait"}) =>
              deviceInitialized' /\ events' /\ deviceHandle' = "open"
      ]_vars

\* the fifth failed poll in a row, none with the device-removed code, has
\* ended the session; the four before it did not
C19_Witness ==
    /\ sup.pc = "emitDetached" /\ ~threadStop
    /\ usbContinuousErrors = 5 /\ usbLastErrorCode = LIBUSB_ERROR_IO

\* the supervisor leaves the steady-state loop, and calls releaseDevice after it
LoopExit == sup.pc = "inner" /\ sup'.pc = "emitDetached"
LoopRelease == sup.pc = "release" /\ sup'.pc = "top"

\* C20: on leaving the steady-state loop deviceDetached is true exactly when
\* the loop was left by the device-removed condition (no stop request, 3 or
\* more errors in a row, the last with the device-removed code), and
\* releaseDevice is called with that value; when the loop was left with 5 or
\* more errors and another last code the interface release is attempted.
\* (Checked under SpecRun, where only the supervisor changes the counters.)
C20_DetachedFlag ==
    [][ /\ LoopExit =>
              (sup'.deviceDetached <=>
                 /\ ~threadStop
                 /\ usbContinuousErrors >= 3
                 /\ usbLastErrorCode = LIBUSB_ERROR_NO_DEVICE)
        /\ sup.pc \in {"emitDetached", "release"} =>
              sup'.deviceDetached = sup.deviceDetached
        /\ LoopRelease =>
              /\ sup'.intfReleased = ~sup.deviceDetached
              /\ (usbContinuousErrors >= 5
                     /\ usbLastErrorCode # LIBUSB_ERROR_NO_DEVICE) =>
                    sup'.intfReleased
      ]_vars

\* run enters sleep(timeout); run enters _threadCond.wait(&_threadLock, 200)
SleepEntered == sup.pc = "scan" /\ sup'.pc = "sleep"
WaitEntered == sup.pc = "wait" /\ sup'.pc = "inner"

\* C21: once a stop has been requested the supervisor enters no backoff
\* sleep and no timed wait of the steady-state loop; a stop that arrives
\* during the scan of claimDevice is seen before sleep(timeout).
\* (Checked under SpecRun.)
C21_NoSleepAfterStop == [][threadStop => ~SleepEntered /\ ~WaitEntered]_vars

\* the delay after the k-th failed claim in a row
DelayAfter(k) == IF k <= 21 THEN 2 ELSE IF k <= 41 THEN 10 ELSE 15

\* C22 (as the code has it): the backoff after a failed claim is a function
\* of the number k of claims that failed in a row, this one included: 2 s for
\* k <= 21, 10 s for 22 <= k <= 41, 15 s for k > 41; claimAttempts counts
\* the failed claims before this one and is 0 after every successful claim;
\* within a run of failures the delay never decreases.
\* (Checked under SpecBackoff.)
C22_BackoffByFailures ==
    [][ /\ sup'.pc = "sleep" =>
              /\ sup'.timeout = DelayAfter(sup'.failed)
              /\ sup'.claimAttempts = sup'.failed - 1
        /\ sup'.pc = "init" => sup'.claimAttempts = 0 /\ sup'.failed = 0
        /\ (SleepEntered /\ sup.failed >= 1) =>
              sup'.timeout >= DelayAfter(sup.failed)
      ]_vars

\* the 22nd failed claim in a row is followed by the first sleep of 10 s
C22_Witness == sup.pc = "sleep" /\ sup.failed = 22 /\ sup.timeout = 10

\* C22 as stated: 2 s while k <= 20, 10 s while 21 <= k <= 40, 15 s for
\* k > 40, k being the number of claims that failed in a row
C22_BackoffAsStated ==
    sup.pc = "sleep" =>
        sup.timeout = IF sup.failed <= 20 THEN 2
                      ELSE IF sup.failed <= 40 THEN 10 ELSE 15

\* the three calls of releaseDevice in run, and the flag each passes
FailedClaimRelease == sup.pc = "scan" /\ sup'.pc = "sleep"
LastRelease == sup.pc = "final" /\ sup'.pc = "done"
ReleaseFlag == IF sup.pc = "scan" THEN FALSE ELSE sup.deviceDetached

\* C24: after releaseDevice(deviceDetached), for either value of the flag
\* and with or without an open handle, the handle is null, isAttached() is
\* false, both error counters are 0, product() and serial() are empty,
\* count() is 0 and states() is empty; libusb_release_interface was called
\* exactly if a handle was open and the flag is false.
\* (Checked under SpecRun.)
C24_ReleasePostcondition ==
    [][ (FailedClaimRelease \/ LoopRelease \/ LastRelease) =>
          /\ deviceHandle' = "null" /\ ~deviceInitialized'
          /\ usbContinuousErrors' = 0 /\ usbLastErrorCode' = 0
          /\ product' = <<>> /\ serial' = <<>>
          /\ count' = 0 /\ statesInternal' = <<>>
          /\ sup'.intfReleased <=> (deviceHandle = "open" /\ ~ReleaseFlag)
      ]_vars

\* releaseDevice(true) has closed an open handle without the interface
\* release, after relay states other than 0 had been read
C24_Witness ==
    /\ sup.pc = "top" /\ sup.deviceDetached /\ ~sup.intfReleased
    /\ deviceHandle = "null" /\ states # 0 /\ statesInternal = <<>>

\* C25: in every state the device handle is non-null exactly if
\* _deviceInitialized is true.  (Checked under SpecRun.)
C25_HandleIffAttached == deviceHandle # "null" <=> deviceInitialized

\* the SET transfer of setSerial() succeeded; its GET transfer succeeded
\* and the report was taken
SerialSetDone == ss.pc = "set" /\ ss'.pc = "read"
SerialGetDone == ss.pc = "read" /\ ss'.pc = "store"

\* C26: after every successful control transfer both error counters are 0,
\* and a failed transfer makes _usbContinuousErrors one greater: the counter
\* moves only to 0 or up by one.  (Checked under SpecSerial: the transfers
\* of setSerial() and of the supervisor.)
C26_CountersFollowTransfers ==
    [][ /\ (SerialSetDone \/ SerialGetDone) =>
              usbContinuousErrors' = 0 /\ usbLastErrorCode' = 0
        /\ usbContinuousErrors' \in
              {usbContinuousErrors, usbContinuousErrors + 1, 0}
      ]_vars

\* the supervisor has polled the board: the wait is over and no stop is seen
Polled == WaitEntered /\ ~threadStop

\* C27: after a poll of the steady-state loop either the GET succeeded, the
\* counters are 0 and _states is byte 7 of the report, or it failed, _states
\* is unchanged and _usbContinuousErrors is one greater; the loop goes to
\* its next iteration either way.  (Checked under SpecRun.)
C27_PollOutcome ==
    [][ Polled =>
          /\ sup'.pc = "inner" /\ deviceInitialized' /\ deviceHandle' = "open"
          /\ \/ /\ usbContinuousErrors' = 0
                /\ states' = BoardReport[8]
             \/ /\ usbContinuousErrors' = usbContinuousErrors + 1
                /\ states' = states
      ]_vars

\* relay 4 of a 4-relay board was switched off from outside and a poll has
\* adopted the change
C27_Witness ==
    /\ sup.pc = "inner" /\ deviceInitialized /\ count = 4
    /\ calls.external = 1 /\ board.bits = 7 /\ states = 7

\* run emits attached(); run emits detached()
AttachedEmitted == sup.pc \in {"init", "initLoop"} /\ sup'.pc = "inner"
DetachedEmitted == sup.pc = "emitDetached" /\ sup'.pc = "release"

\* C31: attached() and detached() alternate, beginning with attached():
\* attached() is emitted only when none is unmatched, detached() only for
\* an unmatched attached(), also when a stop request ends the session; a
\* session that has begun is left only through detached().
\* (Checked under SpecRun.)
C31_EventsAlternate ==
    [][ /\ AttachedEmitted => ~events /\ events'
        /\ DetachedEmitted => events /\ ~events'
        /\ events' # events => AttachedEmitted \/ DetachedEmitted
        /\ (sup.pc \in {"inner", "wait"} /\ sup'.pc \notin {"inner", "wait"}) =>
              sup'.pc = "emitDetached"
        /\ sup'.pc \in {"top", "scan", "sleep", "final", "done"} => ~events'
      ]_vars

\* a stop request has ended a session: detached() is out, the release is next
C31_Witness ==
    /\ sup.pc = "release" /\ threadStop /\ ~events
    /\ deviceInitialized /\ usbContinuousErrors = 0

\* the loop-top check takes the device-removed exit
RemovedExit ==
    /\ LoopExit /\ ~threadStop
    /\ usbContinuousErrors >= 3
    /\ usbLastErrorCode = LIBUSB_ERROR_NO_DEVICE

\* C32: the device-removed exit (3 or more errors in a row and the
\* device-removed code) is taken only when the latest failed transfer
\* returned that code: _usbLastErrorCode is not the code of an earlier
\* failure.  (Checked under SpecRun, where the latest transfer before a
\* loop-top check is the poll.)
C32_LastErrorIsLatest ==
    [][ (RemovedExit /\ sup.pollRes # None) =>
            sup.pollRes = LIBUSB_ERROR_NO_DEVICE ]_vars

(***************************************************************************)
(* Properties of the initial-state request, checked under SpecInit         *)
(***************************************************************************)
\* C14: the request passed to init() is consumed once: it is empty from the
\* moment attached() is emitted for the first time, it stays empty once it is
\* empty, and the supervisor runs a toggle only while the request is pending;
\* so a later attach issues no initial-state toggle.
C14_RequestConsumedOnce ==
    /\ []((events \/ sup.pc \in {"inner", "wait", "emitDetached", "release"})
            => initStates = <<>>)
    /\ [](tgl["sup"].pc # "idle" => initStates # <<>> /\ sup.pc = "initLoop")
    /\ [][initStates = <<>> => initStates' = <<>>]_vars

\* a board has been claimed again and no request is pending
C14_Witness ==
    /\ sup.pc = "init" /\ deviceInitialized /\ initStates = <<>>
    /\ tgl["sup"].pc = "idle" /\ count = 4

\* C15: with a request shorter than the relay count the loop over the relays
\* reads only positions the request has, and toggles no relay past them.
C15_ShortRequestInBounds ==
    sup.pc = "initLoop" =>
        /\ ~crashed
        /\ sup.k <= Len(initStates)
        /\ tgl["sup"].pc # "idle" => tgl["sup"].relayNumber <= Len(initStates)

(***************************************************************************)
(* Properties of the monitor lock                                          *)
(***************************************************************************)
\* setSerial() issues a control transfer in this step
SerialTransfer == ss'.xfers > ss.xfers

\* C16: a control transfer is issued only by the thread that holds
\* _threadLock, so that no two transfer sequences overlap on the handle: in
\* particular setSerial() issues no transfer while another thread holds the
\* lock.  (Checked under SpecSerialInit.)
C16_TransfersUnderLock == [][SerialTransfer => threadLock = "none"]_vars

\* the supervisor's thread writes a published field or the handle in this step
SharedWrite ==
    <<product, serial, count, deviceHandle>>' # <<product, serial, count, deviceHandle>>

\* C17: every write of the shared fields (product, serial, count, handle)
\* is made by a thread that holds _threadLock: none is made while another
\* thread holds it.  (Checked under SpecToggle.)
C17_WritesUnderLock == [][SharedWrite => threadLock # "tog"]_vars

\* C23: in both transport variants the request to init() is applied and
\* cleared before attached() is emitted: attached() is not out while the
\* request is pending or its toggles are under way.  (Checked under
\* SpecInit0, the libusb-0.1 variant.)
C23_AttachedAfterInit ==
    events => /\ initStates = <<>>
              /\ sup.pc \notin {"init0", "initLoop"}
              /\ tgl["sup"].pc = "idle"

\* thread th is inside count(), asking for _threadLock
RequestsLock(th) == tgl[th].pc = "selfLock"

\* C29: no thread asks for _threadLock while it holds it, so no call can
\* block on its own lock.  (Checked under SpecToggle.)
C29_NoRelock == \A th \in Threads : RequestsLock(th) => threadLock # th

\* toggleInternal issues a control transfer in this step
ToggleTransfer == \E th \in Threads : tgl'[th].xfers > tgl[th].xfers

\* C30: no control transfer is issued on a null or closed handle: a call
\* made while no board is attached issues none, and the handle stays open
\* until a transfer sequence that has begun is over.
\* (Checked under SpecSerial.)
C30_TransfersOnOpenHandle ==
    [][ (SerialTransfer \/ ToggleTransfer) =>
            deviceHandle = "open" /\ deviceInitialized ]_vars

(***************************************************************************)
(* Properties of Relay::run with a client, checked under SpecLive          *)
(***************************************************************************)
\* the session is over: detached() was emitted and releaseDevice has run
Released == deviceHandle = "null" /\ ~deviceInitialized /\ ~events

\* C12: once the attached board fails every transfer, detached() is
\* eventually emitted and releaseDevice runs: the handle is null and
\* isAttached() is false.
C12_FailuresLeadToDetach == (deviceInitialized /\ board.dead) ~> Released

\* C13: once a stop is requested the supervisor loop eventually terminates,
\* and when it has terminated the final release has been made: the handle is
\* null, isAttached() is false and both error counters are zero.
C13_StopTerminates ==
    /\ threadStop ~> (sup.pc = "done")
    /\ [](sup.pc = "done" =>
            /\ deviceHandle = "null" /\ ~deviceInitialized
            /\ usbContinuousErrors = 0 /\ usbLastErrorCode = 0)

====
